---------------------------- MODULE Spec2Model ----------------------------
(***************************************************************************)
(* A model of the StickPush manipulation task                              *)
(* (src/robosuite/environments/manipulation/stick_push.py).                *)
(*                                                                         *)
(* Lengths are integers in millimetres (0.025 m = 25), so the geometry is  *)
(* exact.  A position is a 3-tuple <<x, y, z>>, a quaternion a 4-tuple.    *)
(***************************************************************************)
EXTENDS Integers, Sequences, FiniteSets, TLC

(***************************************************************************)
(* Class constants of StickPush.                                           *)
(***************************************************************************)
CUBE_HALFSIZE == 25
GOAL_RADIUS == 50
STICK_HALFLENGTH == 60
STICK_HALFWIDTH == 25

STICK_SPAWN_AREA == << <<-200, -80>>, <<-100, 100>> >>
CUBE_SPAWN_AREA == << <<-50, 0>>, <<-100, 100>> >>
GOAL_SPAWN_AREA == << <<70, 120>>, <<-100, 100>> >>

\* self.table_offset = np.array((0, 0, 0.8))
table_offset == <<0, 0, 800>>

\* z_offset=0.001 of the three samplers
Z_OFFSET == 1

(***************************************************************************)
(* Vectors (numpy arrays of numbers).                                      *)
(***************************************************************************)
\* v[:2]
Slice2(v) == SubSeq(v, 1, 2)

\* a - b, elementwise
VecSub(a, b) == [i \in DOMAIN a |-> a[i] - b[i]]

\* a + b, elementwise
VecAdd(a, b) == [i \in DOMAIN a |-> a[i] + b[i]]

\* np.zeros(3)
Zeros3 == <<0, 0, 0>>

RECURSIVE SumSq(_)
SumSq(v) == IF v = << >> THEN 0 ELSE Head(v) * Head(v) + SumSq(Tail(v))

\* np.linalg.norm(v) <= r for a radius r >= 0: the square root is monotone,
\* so the comparison is made on the squares.
NormLeq(v, r) == SumSq(v) <= r * r

(***************************************************************************)
(* Success and reward.                                                     *)
(***************************************************************************)
\* mutant of check_success: strict comparison
check_success_strict(goal_pos, cube_pos) ==
    SumSq(VecSub(Slice2(goal_pos), Slice2(cube_pos))) < GOAL_RADIUS * GOAL_RADIUS

check_success(goal_pos, cube_pos) ==
    NormLeq(VecSub(Slice2(goal_pos), Slice2(cube_pos)), GOAL_RADIUS)

\* mutant of compute_reward: a success bonus instead of 0
compute_reward_bonus(goal_pos, cube_pos, info) ==
    IF check_success(goal_pos, cube_pos) THEN 1 ELSE -1

compute_reward(goal_pos, cube_pos, info) ==
    IF check_success(goal_pos, cube_pos) THEN 0 ELSE -1


(***************************************************************************)
(* Scene objects created by _load_model.  inst tells the instances of      *)
(* successive episodes apart: it is the number of the _load_model call     *)
(* that created the object.                                                *)
(***************************************************************************)
\* Python's None
None == [none |-> TRUE]

\* BoxObject(name=..., size=...): a box with a free joint and one contact geom
BoxObject(name, size, inst) ==
    [name |-> name, inst |-> inst, shape |-> "box", size |-> size,
     root_body |-> IF name = "cube" THEN "cube_main" ELSE "stick_main",
     joints |-> IF name = "cube" THEN <<"cube_joint0">> ELSE <<"stick_joint0">>,
     contact_geoms |-> IF name = "cube" THEN <<"cube_g0">> ELSE <<"stick_g0">>]

\* CylinderObject(name="goal", ..., obj_type="visual", joints=None)
CylinderObject(name, size, inst) ==
    [name |-> name, inst |-> inst, shape |-> "cylinder", size |-> size,
     root_body |-> "goal_main", joints |-> << >>, contact_geoms |-> << >>]

\* self.cube = BoxObject(name="cube", size=[CUBE_HALFSIZE] * 3)
NewCube(inst) ==
    BoxObject("cube", <<CUBE_HALFSIZE, CUBE_HALFSIZE, CUBE_HALFSIZE>>, inst)

\* self.goal = CylinderObject(name="goal", size=[GOAL_RADIUS, 0.001], joints=None)
NewGoal(inst) == CylinderObject("goal", <<GOAL_RADIUS, 1>>, inst)

\* self.stick = BoxObject(name="stick", size=[STICK_HALFLENGTH, STICK_HALFWIDTH, STICK_HALFWIDTH])
NewStick(inst) ==
    BoxObject("stick", <<STICK_HALFLENGTH, STICK_HALFWIDTH, STICK_HALFWIDTH>>, inst)

(***************************************************************************)
(* The placement sampler.                                                  *)
(***************************************************************************)
\* UniformRandomSampler(name=, mujoco_objects=, x_range=, ...): inst is the
\* number of the _load_model call that constructed the sampler.
UniformRandomSampler(inst, name, obj, x_range, y_range, rotation, in_range, valid, reference_pos, z_offset) ==
    [inst |-> inst, name |-> name, mujoco_objects |-> <<obj>>,
     x_range |-> x_range, y_range |-> y_range, rotation |-> rotation,
     ensure_object_boundary_in_range |-> in_range,
     ensure_valid_placement |-> valid,
     reference_pos |-> reference_pos, z_offset |-> z_offset]

\* sampler.reset(): forgets the registered objects, keeps the configuration
SamplerReset(s) == [s EXCEPT !.mujoco_objects = << >>]

\* sampler.add_objects(obj)
SamplerAddObjects(s, obj) ==
    [s EXCEPT !.mujoco_objects = Append(s.mujoco_objects, obj)]

\* self.cube_initializer = UniformRandomSampler(name="CubeSampler", ...)
NewCubeSampler(obj, inst) ==
    UniformRandomSampler(inst, "CubeSampler", obj, CUBE_SPAWN_AREA[1],
                         CUBE_SPAWN_AREA[2], 0, TRUE, TRUE, table_offset, Z_OFFSET)

\* mutant of NewGoalSampler: the goal sampler built on the cube's spawn area
NewGoalSamplerCubeArea(obj, inst) ==
    UniformRandomSampler(inst, "GoalSampler", obj, CUBE_SPAWN_AREA[1],
                         CUBE_SPAWN_AREA[2], 0, TRUE, TRUE, table_offset, Z_OFFSET)

NewGoalSampler(obj, inst) ==
    UniformRandomSampler(inst, "GoalSampler", obj, GOAL_SPAWN_AREA[1],
                         GOAL_SPAWN_AREA[2], 0, TRUE, TRUE, table_offset, Z_OFFSET)

NewStickSampler(obj, inst) ==
    UniformRandomSampler(inst, "StickSampler", obj, STICK_SPAWN_AREA[1],
                         STICK_SPAWN_AREA[2], 0, TRUE, TRUE, table_offset, Z_OFFSET)

\* mutant of LoadCubeInitializer: the existing sampler is not reset first
LoadCubeInitializerNoReset(cur, obj, inst) ==
    IF cur # None
    THEN SamplerAddObjects(cur, obj)
    ELSE NewCubeSampler(obj, inst)

\* if self.cube_initializer is not None: reset(); add_objects(self.cube)
\* else: self.cube_initializer = UniformRandomSampler(...)
LoadCubeInitializer(cur, obj, inst) ==
    IF cur # None
    THEN SamplerAddObjects(SamplerReset(cur), obj)
    ELSE NewCubeSampler(obj, inst)

LoadGoalInitializer(cur, obj, inst) ==
    IF cur # None
    THEN SamplerAddObjects(SamplerReset(cur), obj)
    ELSE NewGoalSampler(obj, inst)

LoadStickInitializer(cur, obj, inst) ==
    IF cur # None
    THEN SamplerAddObjects(SamplerReset(cur), obj)
    ELSE NewStickSampler(obj, inst)

(***************************************************************************)
(* Bounds of the model.                                                    *)
(***************************************************************************)
\* a sampler draws each coordinate from Divs + 1 evenly spaced points of its
\* range, both ends included
Divs == 2
\* _load_model is called at most MaxLoads times
MaxLoads == 2
\* the cube is pushed at most MaxPushes times per episode
MaxPushes == 1

(***************************************************************************)
(* sampler.sample(fixtures): the poses a sampler may return.  A placement  *)
(* maps an object name to <<pos, quat, obj>>.                              *)
(***************************************************************************)
\* the points of [range[1], range[2]] a coordinate is drawn from
GridPoints(range) ==
    {range[1] + (k * (range[2] - range[1])) \div Divs : k \in 0..Divs}

\* half extents of an object's footprint on the table, along x and y
HalfExtents(obj) ==
    IF obj.shape = "box" THEN <<obj.size[1], obj.size[2]>>
    ELSE <<obj.size[1], obj.size[1]>>

Abs(n) == IF n < 0 THEN -n ELSE n

\* the footprints of obj1 at pos1 and of obj2 at pos2 overlap
Overlaps(pos1, obj1, pos2, obj2) ==
    /\ Abs(pos1[1] - pos2[1]) < HalfExtents(obj1)[1] + HalfExtents(obj2)[1]
    /\ Abs(pos1[2] - pos2[2]) < HalfExtents(obj1)[2] + HalfExtents(obj2)[2]

\* rotation=0: the identity quaternion
SampleQuat(s) == <<1, 0, 0, 0>>

\* the positions the sampler may give obj with the objects of placed already
\* down: inside the sampler's rectangle shifted by its reference position, at
\* z_offset above it, clear of every placed object when validity is checked.
\* (ensure_object_boundary_in_range only narrows the choice inside the
\* rectangle; the whole rectangle is kept here.)
ValidPositions(s, obj, placed) ==
    {pos \in {<<x + s.reference_pos[1], y + s.reference_pos[2],
                s.z_offset + s.reference_pos[3]>> :
                    x \in GridPoints(s.x_range), y \in GridPoints(s.y_range)} :
        s.ensure_valid_placement =>
            \A n \in DOMAIN placed :
                ~Overlaps(pos, obj, placed[n][1], placed[n][3])}

RECURSIVE PlaceAll(_, _, _)
PlaceAll(s, objs, placed) ==
    IF objs = << >> THEN {placed}
    ELSE UNION {PlaceAll(s, Tail(objs),
                         (Head(objs).name :> <<pos, SampleQuat(s), Head(objs)>>) @@ placed) :
                    pos \in ValidPositions(s, Head(objs), placed)}

\* sampler.sample(fixtures=fixtures): every object of the sampler placed in
\* turn, the fixtures being obstacles
Sample(s, fixtures) == PlaceAll(s, s.mujoco_objects, fixtures)

\* sample() without fixtures
NoFixtures == << >>

(***************************************************************************)
(* The simulated scene.  Bodies and geometries are numbered from 0 in the  *)
(* order of the compiled model; two layouts stand for the orders a build   *)
(* may produce, each with the contype / conaffinity <<type, affinity>> the *)
(* compiled model gives every geometry.                                    *)
(***************************************************************************)
GRIPPER_BODY == "gripper0_pushing_gripper"
TABLE_COLLISION == "table_collision"

SceneLayouts ==
    { [bodies |-> <<"world", "table", "robot0_link", GRIPPER_BODY,
                    "cube_main", "goal_main", "stick_main">>,
       geoms |-> << [name |-> "floor", body |-> "world"],
                    [name |-> TABLE_COLLISION, body |-> "table"],
                    [name |-> "table_visual", body |-> "table"],
                    [name |-> "robot0_link_col", body |-> "robot0_link"],
                    [name |-> "gripper0_g0", body |-> GRIPPER_BODY],
                    [name |-> "gripper0_g1", body |-> GRIPPER_BODY],
                    [name |-> "cube_g0", body |-> "cube_main"],
                    [name |-> "goal_g0_vis", body |-> "goal_main"],
                    [name |-> "stick_g0", body |-> "stick_main"] >>,
       masks |-> <<1, 1>>],
      [bodies |-> <<"world", "robot0_link", GRIPPER_BODY, "table",
                    "stick_main", "cube_main", "goal_main">>,
       geoms |-> << [name |-> "robot0_link_col", body |-> "robot0_link"],
                    [name |-> "gripper0_g0", body |-> GRIPPER_BODY],
                    [name |-> "gripper0_g1", body |-> GRIPPER_BODY],
                    [name |-> "gripper0_g2", body |-> GRIPPER_BODY],
                    [name |-> TABLE_COLLISION, body |-> "table"],
                    [name |-> "stick_g0", body |-> "stick_main"],
                    [name |-> "cube_g0", body |-> "cube_main"],
                    [name |-> "goal_g0_vis", body |-> "goal_main"] >>,
       masks |-> <<2, 3>>] }

\* poses of a scene loaded from an XML string (reset_from_xml_string)
XmlPoses ==
    { [cube |-> <<0, 0, 826>>, stick |-> <<-10, 0, 826>>, goal |-> <<100, 0, 801>>] }

\* displacement of the cube by one push of the gripper or the stick
PushDelta == <<25, 0, 0>>

\* actions handed to reward(); << >> is the default None
Actions == {<< >>, <<1, 0, 0>>}

(***************************************************************************)
(* Bounds of the checks.                                                   *)
(***************************************************************************)
\* check_success / compute_reward are called on coordinates 0, 10, .., 10*FnMax
FnMax == 5

VARIABLES
    \* a call of check_success / compute_reward with free arguments
    fn_pc, fn_goal_pos, fn_cube_pos, fn_info, fn_success, fn_reward,
    \* the environment: where its life cycle stands, the number of
    \* _load_model calls made, and self.deterministic_reset
    pc, loads, deterministic_reset,
    \* self.cube, self.goal, self.stick and the three placement initializers
    cube, goal, stick, cube_initializer, goal_initializer, stick_initializer,
    \* the simulator: body and geometry tables, sim.data.qpos by joint name,
    \* sim.model.body_pos / body_quat and sim.data.body_xpos by body id,
    \* sim.model.geom_contype / geom_conaffinity by geometry id
    sim_bodies, sim_geoms, qpos, body_pos, body_quat, body_xpos,
    geom_contype, geom_conaffinity,
    \* the references cached by _setup_references
    cube_body_id, goal_body_id, stick_body_id, gripper_body_id, table_geom_id,
    \* history: the sampler calls and pose writes of the last _reset_internal,
    \* in order, and whether that reset was stochastic
    trace, last_reset,
    \* pushes made in this episode; the last reward() call and its result
    pushes, reward_called, reward_action, reward_out,
    \* observations: self.use_object_obs, the observables in the order they
    \* were registered, the enabled ones, the shared cache, whether a sensor
    \* raised, and whether the cache was filled by an update of this step
    use_object_obs, observables, obs_enabled, obs_cache, obs_failed, obs_fresh

fnVars == <<fn_pc, fn_goal_pos, fn_cube_pos, fn_info, fn_success, fn_reward>>

objVars == <<cube, goal, stick, cube_initializer, goal_initializer, stick_initializer>>

simVars == <<sim_bodies, sim_geoms, qpos, body_pos, body_quat, body_xpos,
             geom_contype, geom_conaffinity>>

refVars == <<cube_body_id, goal_body_id, stick_body_id, gripper_body_id, table_geom_id>>

rewardVars == <<reward_called, reward_action, reward_out>>

envVars == <<pc, loads, deterministic_reset, objVars, simVars, refVars,
             trace, last_reset, pushes, rewardVars>>

obsVars == <<use_object_obs, observables, obs_enabled, obs_cache, obs_failed, obs_fresh>>

vars == <<fnVars, envVars, obsVars>>

(***************************************************************************)
(* Simulator lookups.                                                      *)
(***************************************************************************)
\* sim.model.body_name2id(name)
body_name2id(bodies, name) ==
    (CHOOSE i \in 1..Len(bodies) : bodies[i] = name) - 1

\* sim.model.geom_name2id(name)
geom_name2id(geoms, name) ==
    (CHOOSE i \in 1..Len(geoms) : geoms[i].name = name) - 1

\* the ids of the geometries of body id b
BodyGeoms(bodies, geoms, b) ==
    {i - 1 : i \in {j \in 1..Len(geoms) : geoms[j].body = bodies[b + 1]}}

\* sim.model.body_geomnum[b]
body_geomnum(bodies, geoms, b) == Cardinality(BodyGeoms(bodies, geoms, b))

\* sim.model.body_geomadr[b]: the first geometry of the body
body_geomadr(bodies, geoms, b) ==
    CHOOSE g \in BodyGeoms(bodies, geoms, b) :
        \A h \in BodyGeoms(bodies, geoms, b) : g <= h

\* the elements of a sequence
Range(seq) == {seq[i] : i \in DOMAIN seq}

\* a freshly compiled simulation: layout with its default collision masks,
\* the poses of cube, stick and goal
NewSim(layout, poses) ==
    LET bodyIds == 0..(Len(layout.bodies) - 1)
        geomIds == 0..(Len(layout.geoms) - 1)
        goalId == body_name2id(layout.bodies, "goal_main")
    IN  /\ sim_bodies' = layout.bodies
        /\ sim_geoms' = layout.geoms
        /\ qpos' = [j \in {"cube_joint0", "stick_joint0"} |->
                       (IF j = "cube_joint0" THEN poses.cube ELSE poses.stick)
                           \o <<1, 0, 0, 0>>]
        /\ body_pos' = [b \in bodyIds |-> IF b = goalId THEN poses.goal ELSE Zeros3]
        /\ body_quat' = [b \in bodyIds |-> <<1, 0, 0, 0>>]
        /\ body_xpos' = [b \in bodyIds |-> Zeros3]
        /\ geom_contype' = [g \in geomIds |-> layout.masks[1]]
        /\ geom_conaffinity' = [g \in geomIds |-> layout.masks[2]]

\* forward kinematics: a body on a free joint sits at the joint's position,
\* the others at their fixed body_pos
Kinematics(bodies, q, bpos) ==
    [b \in DOMAIN bpos |->
        IF bodies[b + 1] = "cube_main" THEN SubSeq(q["cube_joint0"], 1, 3)
        ELSE IF bodies[b + 1] = "stick_main" THEN SubSeq(q["stick_joint0"], 1, 3)
        ELSE bpos[b]]

(***************************************************************************)
(* reward                                                                  *)
(***************************************************************************)
\* mutant of reward: a penalty for a non-zero action
reward_action_cost(action) ==
    IF action \in {<< >>, Zeros3}
    THEN compute_reward(body_xpos[goal_body_id], body_xpos[cube_body_id], << >>)
    ELSE -1

reward(action) ==
    compute_reward(body_xpos[goal_body_id], body_xpos[cube_body_id], << >>)

(***************************************************************************)
(* _reset_internal                                                         *)
(***************************************************************************)
\* the geometry ids of cube.contact_geoms + stick.contact_geoms
ContactGeomIds ==
    {geom_name2id(sim_geoms, g) : g \in Range(cube.contact_geoms \o stick.contact_geoms)}

\* i + body_geomadr[gripper_body_id] for i in range(body_geomnum[gripper_body_id])
GripperGeomIds ==
    {i + body_geomadr(sim_bodies, sim_geoms, gripper_body_id) :
        i \in 0..(body_geomnum(sim_bodies, sim_geoms, gripper_body_id) - 1)}

\* mutant of ResetContype: the table geometry is left alone
ResetContypeNoTable(ct) ==
    [g \in DOMAIN ct |-> IF g \in GripperGeomIds THEN 7
                         ELSE IF g \in ContactGeomIds THEN 4 ELSE ct[g]]

\* geom_contype after the three loops: 0b100 on the contact geometries, then
\* 0b111 on the gripper's geometries, then 0b111 on the table (a later
\* assignment overrides an earlier one)
ResetContype(ct) ==
    [g \in DOMAIN ct |-> IF g = table_geom_id THEN 7
                         ELSE IF g \in GripperGeomIds THEN 7
                         ELSE IF g \in ContactGeomIds THEN 4 ELSE ct[g]]

\* geom_conaffinity: 0b100 on the contact geometries
ResetConaffinity(ca) ==
    [g \in DOMAIN ca |-> IF g \in ContactGeomIds THEN 4 ELSE ca[g]]

\* mutant of StickFixtures: the stick sampled without fixtures
StickFixturesNone(cube_placement) == NoFixtures

\* stick_initializer.sample(fixtures=cube_placement)
StickFixtures(cube_placement) == cube_placement

\* np.concatenate([np.array(pos), np.array(quat)])
Pose(placement, name) == placement[name][1] \o placement[name][2]

\* mutant of ResetCalls: the stick placed before the cube
ResetCallsStickFirst(cube_placement, stick_placement, goal_placement) ==
    << [call |-> "sample", sampler |-> stick_initializer.name, fixtures |-> NoFixtures],
       [call |-> "set_joint_qpos", joint |-> stick.joints[1],
        value |-> Pose(stick_placement, "stick")],
       [call |-> "sample", sampler |-> cube_initializer.name, fixtures |-> NoFixtures],
       [call |-> "set_joint_qpos", joint |-> cube.joints[1],
        value |-> Pose(cube_placement, "cube")],
       [call |-> "sample", sampler |-> goal_initializer.name, fixtures |-> NoFixtures],
       [call |-> "body_pos", body |-> goal_body_id, value |-> goal_placement["goal"][1]],
       [call |-> "body_quat", body |-> goal_body_id, value |-> goal_placement["goal"][2]] >>

\* the sampler calls and simulator writes of a stochastic reset, in order
ResetCalls(cube_placement, stick_placement, goal_placement) ==
    << [call |-> "sample", sampler |-> cube_initializer.name, fixtures |-> NoFixtures],
       [call |-> "set_joint_qpos", joint |-> cube.joints[1],
        value |-> Pose(cube_placement, "cube")],
       [call |-> "sample", sampler |-> stick_initializer.name,
        fixtures |-> StickFixtures(cube_placement)],
       [call |-> "set_joint_qpos", joint |-> stick.joints[1],
        value |-> Pose(stick_placement, "stick")],
       [call |-> "sample", sampler |-> goal_initializer.name, fixtures |-> NoFixtures],
       [call |-> "body_pos", body |-> goal_body_id, value |-> goal_placement["goal"][1]],
       [call |-> "body_quat", body |-> goal_body_id, value |-> goal_placement["goal"][2]] >>

\* sim.data.qpos after the set_joint_qpos calls of calls
RECURSIVE RunQpos(_, _)
RunQpos(calls, q) ==
    IF calls = << >> THEN q
    ELSE RunQpos(Tail(calls),
                 IF Head(calls).call = "set_joint_qpos"
                 THEN [q EXCEPT ![Head(calls).joint] = Head(calls).value]
                 ELSE q)

\* sim.model.body_pos (field "body_pos") or body_quat after the writes of calls
RECURSIVE RunBody(_, _, _)
RunBody(calls, field, f) ==
    IF calls = << >> THEN f
    ELSE RunBody(Tail(calls), field,
                 IF Head(calls).call = field
                 THEN [f EXCEPT ![Head(calls).body] = Head(calls).value]
                 ELSE f)

(***************************************************************************)
(* The environment's life cycle.                                           *)
(***************************************************************************)
\* __init__ up to the call of super().__init__: the initializers are None
EnvInit ==
    /\ pc = "init"
    /\ loads = 0
    /\ deterministic_reset = FALSE
    /\ cube = None /\ goal = None /\ stick = None
    /\ cube_initializer = None
    /\ goal_initializer = None
    /\ stick_initializer = None
    /\ sim_bodies = << >> /\ sim_geoms = << >>
    /\ qpos = << >> /\ body_pos = << >> /\ body_quat = << >> /\ body_xpos = << >>
    /\ geom_contype = << >> /\ geom_conaffinity = << >>
    /\ cube_body_id = -1 /\ goal_body_id = -1 /\ stick_body_id = -1
    /\ gripper_body_id = -1 /\ table_geom_id = -1
    /\ trace = << >>
    /\ last_reset = "none"
    /\ pushes = 0
    /\ reward_called = FALSE /\ reward_action = << >> /\ reward_out = 0

\* _load_model: new objects, the initializers created or repopulated
LoadModel ==
    /\ pc = "init"
    /\ loads < MaxLoads
    /\ loads' = loads + 1
    /\ cube' = NewCube(loads')
    /\ goal' = NewGoal(loads')
    /\ stick' = NewStick(loads')
    /\ cube_initializer' = LoadCubeInitializer(cube_initializer, cube', loads')
    /\ goal_initializer' = LoadGoalInitializer(goal_initializer, goal', loads')
    /\ stick_initializer' = LoadStickInitializer(stick_initializer, stick', loads')
    /\ pc' = "loaded"
    /\ UNCHANGED <<fnVars, obsVars, deterministic_reset, simVars, refVars, trace, last_reset,
                   pushes, rewardVars>>

\* the simulation compiled from the loaded model: objects at the origin
InitializeSim ==
    /\ pc = "loaded"
    /\ \E layout \in SceneLayouts :
          NewSim(layout, [cube |-> Zeros3, stick |-> Zeros3, goal |-> Zeros3])
    /\ pc' = "sim"
    /\ UNCHANGED <<fnVars, obsVars, loads, deterministic_reset, objVars, refVars, trace, last_reset,
                   pushes, rewardVars>>

\* _setup_references
SetupReferences ==
    /\ pc = "sim"
    /\ cube_body_id' = body_name2id(sim_bodies, cube.root_body)
    /\ goal_body_id' = body_name2id(sim_bodies, goal.root_body)
    /\ stick_body_id' = body_name2id(sim_bodies, stick.root_body)
    /\ gripper_body_id' = body_name2id(sim_bodies, GRIPPER_BODY)
    /\ table_geom_id' = geom_name2id(sim_geoms, TABLE_COLLISION)
    /\ pc' = "refs"
    /\ UNCHANGED <<fnVars, obsVars, loads, deterministic_reset, objVars, simVars, trace, last_reset,
                   pushes, rewardVars>>

\* mutant of SamplesPoses: the object poses are sampled on every reset
SamplesPosesAlways(flag) == TRUE

\* if not self.deterministic_reset: the guard of the pose sampling
SamplesPoses(flag) == ~flag

\* _reset_internal
ResetInternal ==
    /\ pc = "refs"
    /\ geom_contype' = ResetContype(geom_contype)
    /\ geom_conaffinity' = ResetConaffinity(geom_conaffinity)
    /\ IF SamplesPoses(deterministic_reset)
       THEN \E cube_placement \in Sample(cube_initializer, NoFixtures) :
            \E stick_placement \in Sample(stick_initializer, StickFixtures(cube_placement)) :
            \E goal_placement \in Sample(goal_initializer, NoFixtures) :
               LET calls == ResetCalls(cube_placement, stick_placement, goal_placement)
               IN  /\ qpos' = RunQpos(calls, qpos)
                   /\ body_pos' = RunBody(calls, "body_pos", body_pos)
                   /\ body_quat' = RunBody(calls, "body_quat", body_quat)
                   /\ trace' = calls
       ELSE /\ trace' = << >>
            /\ UNCHANGED <<qpos, body_pos, body_quat>>
    /\ last_reset' = IF deterministic_reset THEN "deterministic" ELSE "stochastic"
    /\ pc' = "reset_done"
    /\ UNCHANGED <<fnVars, obsVars, loads, deterministic_reset, objVars, sim_bodies, sim_geoms,
                   body_xpos, refVars, pushes, rewardVars>>

\* the rest of reset(): sim.forward(); a reset_from_xml_string ends by
\* clearing deterministic_reset
Forward ==
    /\ pc = "reset_done"
    /\ body_xpos' = Kinematics(sim_bodies, qpos, body_pos)
    /\ deterministic_reset' = FALSE
    /\ pushes' = 0
    /\ reward_called' = FALSE /\ reward_action' = << >> /\ reward_out' = 0
    /\ pc' = "ready"
    /\ UNCHANGED <<fnVars, obsVars, loads, objVars, sim_bodies, sim_geoms, qpos, body_pos, body_quat,
                   geom_contype, geom_conaffinity, refVars, trace, last_reset>>

\* a simulation step in which the cube is pushed
Step ==
    /\ pc = "ready"
    /\ pushes < MaxPushes
    /\ pushes' = pushes + 1
    /\ qpos' = [qpos EXCEPT !["cube_joint0"] =
                    VecAdd(SubSeq(@, 1, 3), PushDelta) \o SubSeq(@, 4, 7)]
    /\ body_xpos' = Kinematics(sim_bodies, qpos', body_pos)
    /\ reward_called' = FALSE /\ reward_action' = << >> /\ reward_out' = 0
    /\ UNCHANGED <<fnVars, obsVars, pc, loads, deterministic_reset, objVars, sim_bodies, sim_geoms,
                   body_pos, body_quat, geom_contype, geom_conaffinity, refVars,
                   trace, last_reset>>

\* reward(action)
Reward(action) ==
    /\ pc = "ready"
    /\ reward_called' = TRUE
    /\ reward_action' = action
    /\ reward_out' = reward(action)
    /\ UNCHANGED <<fnVars, obsVars, pc, loads, deterministic_reset, objVars, simVars, refVars,
                   trace, last_reset, pushes>>

\* reset() with hard_reset: the simulation is torn down and the model rebuilt
HardReset ==
    /\ pc = "ready"
    /\ loads < MaxLoads
    /\ pc' = "init"
    /\ sim_bodies' = << >> /\ sim_geoms' = << >>
    /\ qpos' = << >> /\ body_pos' = << >> /\ body_quat' = << >> /\ body_xpos' = << >>
    /\ geom_contype' = << >> /\ geom_conaffinity' = << >>
    /\ trace' = << >> /\ last_reset' = "none"
    /\ pushes' = 0
    /\ reward_called' = FALSE /\ reward_action' = << >> /\ reward_out' = 0
    /\ UNCHANGED <<fnVars, obsVars, loads, deterministic_reset, objVars, refVars>>

\* reset_from_xml_string: deterministic_reset is set and the simulation is
\* compiled from the given XML; the model is not rebuilt
ResetFromXml ==
    /\ pc = "ready"
    /\ deterministic_reset' = TRUE
    /\ \E poses \in XmlPoses, layout \in SceneLayouts :
          /\ layout.bodies = sim_bodies
          /\ NewSim(layout, poses)
    /\ pc' = "sim"
    /\ trace' = << >> /\ last_reset' = "none"
    /\ pushes' = 0
    /\ reward_called' = FALSE /\ reward_action' = << >> /\ reward_out' = 0
    /\ UNCHANGED <<fnVars, obsVars, loads, objVars, refVars>>

Next ==
    \/ LoadModel
    \/ InitializeSim
    \/ SetupReferences
    \/ ResetInternal
    \/ Forward
    \/ Step
    \/ \E action \in Actions : Reward(action)
    \/ HardReset
    \/ ResetFromXml


(***************************************************************************)
(* Observables.  A sensor is a function of the observation cache, a        *)
(* dictionary from observable names to values.                             *)
(***************************************************************************)
\* pf = self.robots[0].robot_model.naming_prefix
pf_eef_pos == "robot0_eef_pos"

\* what a dictionary lookup of a missing key, and any expression built on it,
\* raises
KeyError == <<"KeyError">>

\* obs_cache[key]
Get(cache, key) == IF key \in DOMAIN cache THEN cache[key] ELSE KeyError

\* a - b on looked-up values
Minus(a, b) == IF a = KeyError \/ b = KeyError THEN KeyError ELSE VecSub(a, b)

\* convert_quat(q, to="xyzw"): (w, x, y, z) to (x, y, z, w)
convert_quat_xyzw(q) == <<q[2], q[3], q[4], q[1]>>

\* the robot's end-effector position sensor
eef_pos(cache) == body_xpos[gripper_body_id]

cube_pos(cache) == body_xpos[cube_body_id]

stick_quat(cache) == convert_quat_xyzw(SubSeq(qpos["stick_joint0"], 4, 7))

\* mutant of gripper_to_cube_pos: "or" in place of "and"
gripper_to_cube_pos_or(cache) ==
    IF pf_eef_pos \in DOMAIN cache \/ "cube_pos" \in DOMAIN cache
    THEN Minus(Get(cache, pf_eef_pos), Get(cache, "cube_pos"))
    ELSE Zeros3

gripper_to_cube_pos(cache) ==
    IF pf_eef_pos \in DOMAIN cache /\ "cube_pos" \in DOMAIN cache
    THEN Minus(Get(cache, pf_eef_pos), Get(cache, "cube_pos"))
    ELSE Zeros3

goal_pos(cache) == body_xpos[goal_body_id]

gripper_to_goal_pos(cache) ==
    IF pf_eef_pos \in DOMAIN cache /\ "goal_pos" \in DOMAIN cache
    THEN Minus(Get(cache, pf_eef_pos), Get(cache, "goal_pos"))
    ELSE Zeros3

cube_to_goal_pos(cache) ==
    IF "cube_pos" \in DOMAIN cache /\ "goal_pos" \in DOMAIN cache
    THEN Minus(Get(cache, "cube_pos"), Get(cache, "goal_pos"))
    ELSE Zeros3

stick_pos(cache) == body_xpos[stick_body_id]

gripper_to_stick_pos(cache) ==
    IF pf_eef_pos \in DOMAIN cache /\ "stick_pos" \in DOMAIN cache
    THEN Minus(Get(cache, pf_eef_pos), Get(cache, "stick_pos"))
    ELSE Zeros3

stick_to_cube_pos(cache) ==
    IF "stick_pos" \in DOMAIN cache /\ "cube_pos" \in DOMAIN cache
    THEN Minus(Get(cache, "stick_pos"), Get(cache, "cube_pos"))
    ELSE Zeros3

stick_to_goal_pos(cache) ==
    IF "stick_pos" \in DOMAIN cache /\ "goal_pos" \in DOMAIN cache
    THEN Minus(Get(cache, "stick_pos"), Get(cache, "goal_pos"))
    ELSE Zeros3

\* the sensor registered under name, applied to the cache
Sensor(name, cache) ==
    CASE name = pf_eef_pos -> eef_pos(cache)
      [] name = "cube_pos" -> cube_pos(cache)
      [] name = "stick_quat" -> stick_quat(cache)
      [] name = "gripper_to_cube_pos" -> gripper_to_cube_pos(cache)
      [] name = "goal_pos" -> goal_pos(cache)
      [] name = "gripper_to_goal_pos" -> gripper_to_goal_pos(cache)
      [] name = "cube_to_goal_pos" -> cube_to_goal_pos(cache)
      [] name = "stick_pos" -> stick_pos(cache)
      [] name = "gripper_to_stick_pos" -> gripper_to_stick_pos(cache)
      [] name = "stick_to_cube_pos" -> stick_to_cube_pos(cache)
      [] name = "stick_to_goal_pos" -> stick_to_goal_pos(cache)

\* names = [s.__name__ for s in sensors]
sensors ==
    <<"gripper_to_cube_pos", "gripper_to_goal_pos", "cube_to_goal_pos",
      "gripper_to_stick_pos", "stick_to_cube_pos", "stick_to_goal_pos",
      "cube_pos", "goal_pos", "stick_pos", "stick_quat">>

\* the observables of super()._setup_observables(): the robot's
RobotObservables == <<pf_eef_pos>>

\* _setup_observables: the robot's observables, then, with use_object_obs,
\* one observable per sensor in the order of the sensors list
SetupObservables(object_obs) ==
    IF object_obs THEN RobotObservables \o sensors ELSE RobotObservables

\* one pass over the observables names in order: each enabled one evaluates
\* its sensor on the cache and stores the value under its name
RECURSIVE UpdateObservables(_, _, _)
UpdateObservables(names, enabled, st) ==
    IF names = << >> THEN st
    ELSE LET n == Head(names)
             v == Sensor(n, st.cache)
         IN  UpdateObservables(Tail(names), enabled,
                IF n \notin enabled THEN st
                ELSE IF v = KeyError THEN [st EXCEPT !.failed = TRUE]
                ELSE [st EXCEPT !.cache = (n :> v) @@ st.cache])

\* where the simulation may put the gripper and the cube
ObsGripperPositions == {<<-100, 0, 900>>, <<-50, 20, 830>>}
ObsCubePositions == {<<-25, 0, 826>>, <<40, 0, 826>>}
ObsStickPosition == <<-140, 100, 826>>
ObsGoalPosition == <<70, 0, 801>>

\* the observables that are switched on and off
Switchable == {pf_eef_pos, "cube_pos", "goal_pos", "stick_pos"}

\* an environment after its first reset, observables set up and enabled,
\* the cache empty
ObsInit ==
    /\ pc = "ready"
    /\ loads = 1
    /\ deterministic_reset = FALSE
    /\ cube = NewCube(1) /\ goal = NewGoal(1) /\ stick = NewStick(1)
    /\ cube_initializer = LoadCubeInitializer(None, cube, 1)
    /\ goal_initializer = LoadGoalInitializer(None, goal, 1)
    /\ stick_initializer = LoadStickInitializer(None, stick, 1)
    /\ \E layout \in SceneLayouts :
          /\ sim_bodies = layout.bodies
          /\ sim_geoms = layout.geoms
    /\ cube_body_id = body_name2id(sim_bodies, cube.root_body)
    /\ goal_body_id = body_name2id(sim_bodies, goal.root_body)
    /\ stick_body_id = body_name2id(sim_bodies, stick.root_body)
    /\ gripper_body_id = body_name2id(sim_bodies, GRIPPER_BODY)
    /\ table_geom_id = geom_name2id(sim_geoms, TABLE_COLLISION)
    /\ \E layout \in SceneLayouts :
          /\ layout.bodies = sim_bodies
          /\ geom_contype = ResetContype([g \in 0..(Len(sim_geoms) - 1) |-> layout.masks[1]])
          /\ geom_conaffinity = ResetConaffinity([g \in 0..(Len(sim_geoms) - 1) |-> layout.masks[2]])
    /\ \E c \in ObsCubePositions :
          qpos = [cube_joint0 |-> c \o <<1, 0, 0, 0>>,
                  stick_joint0 |-> ObsStickPosition \o <<1, 0, 0, 0>>]
    /\ \E g \in ObsGripperPositions :
          body_pos = [b \in 0..(Len(sim_bodies) - 1) |->
                         IF b = goal_body_id THEN ObsGoalPosition
                         ELSE IF b = gripper_body_id THEN g ELSE Zeros3]
    /\ body_quat = [b \in 0..(Len(sim_bodies) - 1) |-> <<1, 0, 0, 0>>]
    /\ body_xpos = Kinematics(sim_bodies, qpos, body_pos)
    /\ trace = << >>
    /\ last_reset = "none"
    /\ pushes = 0
    /\ reward_called = FALSE /\ reward_action = << >> /\ reward_out = 0
    /\ use_object_obs \in BOOLEAN
    /\ observables = SetupObservables(use_object_obs)
    /\ obs_enabled = Range(observables)
    /\ obs_cache = << >>
    /\ obs_failed = FALSE
    /\ obs_fresh = FALSE

ObsIdle ==
    /\ use_object_obs = TRUE
    /\ observables = << >>
    /\ obs_enabled = {}
    /\ obs_cache = << >>
    /\ obs_failed = FALSE
    /\ obs_fresh = FALSE

\* _update_observables: every enabled observable, in registration order
ObsUpdate ==
    /\ ~obs_failed
    /\ LET st == UpdateObservables(observables, obs_enabled,
                                   [cache |-> obs_cache, failed |-> FALSE])
       IN  /\ obs_cache' = st.cache
           /\ obs_failed' = st.failed
    /\ obs_fresh' = TRUE
    /\ UNCHANGED <<fnVars, envVars, use_object_obs, observables, obs_enabled>>

\* a simulation step: gripper and cube move
ObsStep ==
    /\ ~obs_failed
    /\ \E g \in ObsGripperPositions, c \in ObsCubePositions :
          /\ qpos' = [qpos EXCEPT !["cube_joint0"] = c \o SubSeq(@, 4, 7)]
          /\ body_pos' = [body_pos EXCEPT ![gripper_body_id] = g]
          /\ body_xpos' = Kinematics(sim_bodies, qpos', body_pos')
    /\ obs_fresh' = FALSE
    /\ UNCHANGED <<fnVars, pc, loads, deterministic_reset, objVars, sim_bodies,
                   sim_geoms, body_quat, geom_contype, geom_conaffinity, refVars,
                   trace, last_reset, pushes, rewardVars,
                   use_object_obs, observables, obs_enabled, obs_cache, obs_failed>>

\* reset(): self._obs_cache = {}
ObsReset ==
    /\ ~obs_failed
    /\ obs_cache' = << >>
    /\ obs_fresh' = FALSE
    /\ UNCHANGED <<fnVars, envVars, use_object_obs, observables, obs_enabled, obs_failed>>

\* modify_observable(name, "enabled", flag)
ObsSetEnabled(name, flag) ==
    /\ ~obs_failed
    /\ name \in Range(observables)
    /\ obs_enabled' = IF flag THEN obs_enabled \cup {name} ELSE obs_enabled \ {name}
    /\ obs_enabled' # obs_enabled
    /\ obs_fresh' = FALSE
    /\ UNCHANGED <<fnVars, envVars, use_object_obs, observables, obs_cache, obs_failed>>

ObsNext ==
    \/ ObsUpdate
    \/ ObsStep
    \/ ObsReset
    \/ \E name \in Switchable, flag \in BOOLEAN : ObsSetEnabled(name, flag)


FnCoords == {10 * k : k \in 0..FnMax}
FnHeights == {0, 801}
FnPositions == {<<x, y, z>> : x \in FnCoords, y \in FnCoords, z \in FnHeights}
\* info dictionaries: empty, or carrying some entry
FnInfos == {<< >>, <<"is_success">>}

FnIdle ==
    /\ fn_pc = "idle"
    /\ fn_goal_pos = Zeros3
    /\ fn_cube_pos = Zeros3
    /\ fn_info = << >>
    /\ fn_success = FALSE
    /\ fn_reward = 0

FnInit ==
    /\ fn_pc = "args"
    /\ fn_goal_pos \in FnPositions
    /\ fn_cube_pos \in FnPositions
    /\ fn_info \in FnInfos
    /\ fn_success = FALSE
    /\ fn_reward = 0

CallCheckSuccess ==
    /\ fn_pc = "args"
    /\ fn_success' = check_success(fn_goal_pos, fn_cube_pos)
    /\ fn_pc' = "check_success"
    /\ UNCHANGED <<fn_goal_pos, fn_cube_pos, fn_info, fn_reward, envVars, obsVars>>

CallComputeReward ==
    /\ fn_pc = "args"
    /\ fn_reward' = compute_reward(fn_goal_pos, fn_cube_pos, fn_info)
    /\ fn_pc' = "compute_reward"
    /\ UNCHANGED <<fn_goal_pos, fn_cube_pos, fn_info, fn_success, envVars, obsVars>>

FnNext == CallCheckSuccess \/ CallComputeReward

\* the two functions called on free arguments
InitFn == FnInit /\ EnvInit /\ ObsIdle

SpecFn == InitFn /\ [][FnNext]_vars

\* the environment's life cycle
Init == EnvInit /\ FnIdle /\ ObsIdle

Spec == Init /\ [][Next]_vars

\* the observables of an environment that has been reset
InitObs == ObsInit /\ FnIdle

SpecObs == InitObs /\ [][ObsNext]_vars


(***************************************************************************)
(* C1: check_success(goal_pos, cube_pos) is true iff the Euclidean         *)
(* distance of the (x, y) components is at most GOAL_RADIUS (50 mm), the   *)
(* boundary included, and changing only the z component of either          *)
(* argument never changes the result.                                      *)
(***************************************************************************)
PlanarDistSq(p, q) ==
    (p[1] - q[1]) * (p[1] - q[1]) + (p[2] - q[2]) * (p[2] - q[2])

C1_CheckSuccessPlanar ==
    fn_pc = "check_success" =>
        /\ fn_success = (PlanarDistSq(fn_goal_pos, fn_cube_pos) <= 50 * 50)
        /\ \A zg, zc \in FnHeights :
              check_success(<<fn_goal_pos[1], fn_goal_pos[2], zg>>,
                            <<fn_cube_pos[1], fn_cube_pos[2], zc>>) = fn_success

\* the boundary case: planar distance exactly 50 mm, different heights, success
C1_Witness ==
    /\ fn_pc = "check_success"
    /\ PlanarDistSq(fn_goal_pos, fn_cube_pos) = 50 * 50
    /\ fn_goal_pos[1] # fn_cube_pos[1]
    /\ fn_goal_pos[2] # fn_cube_pos[2]
    /\ fn_goal_pos[3] # fn_cube_pos[3]
    /\ fn_success

(***************************************************************************)
(* C2: compute_reward is sparse: 0 exactly when check_success is true and  *)
(* -1 otherwise, no other value, and the same for every info argument.     *)
(***************************************************************************)
C2_SparseReward ==
    fn_pc = "compute_reward" =>
        /\ fn_reward \in {0, -1}
        /\ (fn_reward = 0) = check_success(fn_goal_pos, fn_cube_pos)
        /\ (fn_reward = 0) = (PlanarDistSq(fn_goal_pos, fn_cube_pos) <= 50 * 50)
        /\ \A info \in FnInfos :
              compute_reward(fn_goal_pos, fn_cube_pos, info) = fn_reward

\* a successful call with a non-empty info dictionary
C2_Witness ==
    /\ fn_pc = "compute_reward"
    /\ fn_info # << >>
    /\ fn_reward = 0
    /\ fn_goal_pos # fn_cube_pos

(***************************************************************************)
(* C3: reward(action) ignores its action argument: any two actions give    *)
(* the same reward in the same simulator state, and the reward equals      *)
(* compute_reward on the current simulator positions of the goal body and  *)
(* the cube body.                                                          *)
(***************************************************************************)
\* the simulator's current position of the body called name
PosOfBody(name) == body_xpos[body_name2id(sim_bodies, name)]

C3_RewardIgnoresAction ==
    pc = "ready" =>
        /\ \A a1, a2 \in Actions : reward(a1) = reward(a2)
        /\ \A a \in Actions :
              reward(a) = compute_reward(PosOfBody("goal_main"), PosOfBody("cube_main"), << >>)
        /\ reward_called =>
              reward_out = compute_reward(PosOfBody("goal_main"), PosOfBody("cube_main"), << >>)

\* reward called with a non-default action once the cube has been pushed into
\* the goal
C3_Witness ==
    /\ pc = "ready"
    /\ reward_called
    /\ reward_action # << >>
    /\ reward_out = 0
    /\ pushes > 0

(***************************************************************************)
(* C4: each of the six relative sensors returns the zero 3-vector, and     *)
(* does not fail, whenever at least one of its two dependency entries is   *)
(* absent from the observation cache; with both present it returns the     *)
(* first entry minus the second.                                           *)
(***************************************************************************)
\* the two cache entries each relative sensor is the difference of
RelativeDeps ==
    [gripper_to_cube_pos |-> <<"robot0_eef_pos", "cube_pos">>,
     gripper_to_goal_pos |-> <<"robot0_eef_pos", "goal_pos">>,
     gripper_to_stick_pos |-> <<"robot0_eef_pos", "stick_pos">>,
     cube_to_goal_pos |-> <<"cube_pos", "goal_pos">>,
     stick_to_cube_pos |-> <<"stick_pos", "cube_pos">>,
     stick_to_goal_pos |-> <<"stick_pos", "goal_pos">>]

\* cache without the entries of gone
Without(cache, gone) == [k \in DOMAIN cache \ gone |-> cache[k]]

C4_RelativeSensorsZero ==
    /\ ~obs_failed
    /\ \A gone \in SUBSET Switchable, r \in DOMAIN RelativeDeps :
          LET cache == Without(obs_cache, gone)
              a == RelativeDeps[r][1]
              b == RelativeDeps[r][2]
          IN  Sensor(r, cache) =
                  IF a \in DOMAIN cache /\ b \in DOMAIN cache
                  THEN <<cache[a][1] - cache[b][1], cache[a][2] - cache[b][2],
                         cache[a][3] - cache[b][3]>>
                  ELSE <<0, 0, 0>>

\* an update that ran with cube_pos missing from the cache and the stick and
\* goal entries present: gripper_to_cube_pos is zero, stick_to_goal_pos is not
C4_Witness ==
    /\ obs_fresh
    /\ use_object_obs
    /\ "cube_pos" \notin DOMAIN obs_cache
    /\ "robot0_eef_pos" \in DOMAIN obs_cache
    /\ "gripper_to_cube_pos" \in DOMAIN obs_cache
    /\ obs_cache["gripper_to_cube_pos"] = <<0, 0, 0>>
    /\ "stick_to_goal_pos" \in DOMAIN obs_cache
    /\ obs_cache["stick_to_goal_pos"] # <<0, 0, 0>>

(***************************************************************************)
(* C10: in an observation update that evaluates the observables in the     *)
(* order of their registration, each relative sensor is evaluated after    *)
(* its two absolute sensors wrote this update's values into the cache, so  *)
(* with object observations enabled the relative value is the difference   *)
(* of the two absolute positions of the same step.                         *)
(***************************************************************************)
C10_RelativeAfterAbsolute ==
    (obs_fresh /\ use_object_obs /\ obs_enabled = Range(observables)) =>
        \A r \in DOMAIN RelativeDeps :
            obs_cache[r] = VecSub(obs_cache[RelativeDeps[r][1]],
                                  obs_cache[RelativeDeps[r][2]])

(***************************************************************************)
(* C5: after every stochastic reset that completes, the stick pose written *)
(* to the simulator does not overlap the footprint of the cube pose        *)
(* written in the same reset.                                              *)
(***************************************************************************)
C5_StickClearOfCube ==
    (pc = "reset_done" /\ last_reset = "stochastic") =>
        LET c == qpos["cube_joint0"]
            s == qpos["stick_joint0"]
        IN  \/ Abs(s[1] - c[1]) >= STICK_HALFLENGTH + CUBE_HALFSIZE
            \/ Abs(s[2] - c[2]) >= STICK_HALFWIDTH + CUBE_HALFSIZE

\* a reset in which stick and cube are side by side: their footprints share
\* x coordinates and are apart only along y
C5_Witness ==
    /\ pc = "reset_done"
    /\ last_reset = "stochastic"
    /\ Abs(qpos["stick_joint0"][1] - qpos["cube_joint0"][1]) < STICK_HALFLENGTH + CUBE_HALFSIZE
    /\ Abs(qpos["stick_joint0"][2] - qpos["cube_joint0"][2]) >= STICK_HALFWIDTH + CUBE_HALFSIZE

(***************************************************************************)
(* C6: after any number of stochastic resets with the same samplers, the   *)
(* (x, y) written for each object lies in its declared rectangle shifted   *)
(* by the table offset: cube x in [-50, 0], stick x in [-200, -80], goal x *)
(* in [70, 120], y in [-100, 100] for all three (millimetres).             *)
(***************************************************************************)
C6_WithinSpawnAreas ==
    (pc = "reset_done" /\ last_reset = "stochastic") =>
        LET c == qpos["cube_joint0"]
            s == qpos["stick_joint0"]
            g == body_pos[body_name2id(sim_bodies, "goal_main")]
        IN  /\ c[1] \in (-50 + table_offset[1])..(0 + table_offset[1])
            /\ s[1] \in (-200 + table_offset[1])..(-80 + table_offset[1])
            /\ g[1] \in (70 + table_offset[1])..(120 + table_offset[1])
            /\ \A p \in {c, s, g} :
                  p[2] \in (-100 + table_offset[2])..(100 + table_offset[2])

\* a second reset with the samplers of the first, objects in the corners of
\* their rectangles
C6_Witness ==
    /\ pc = "reset_done"
    /\ last_reset = "stochastic"
    /\ loads = 2
    /\ cube_initializer.inst = 1
    /\ qpos["cube_joint0"][1] = 0
    /\ qpos["cube_joint0"][2] = 100
    /\ qpos["stick_joint0"][1] = -200
    /\ body_pos[body_name2id(sim_bodies, "goal_main")][1] = 120

(***************************************************************************)
(* C7: after one or more _load_model calls each of the three samplers is   *)
(* the instance the first call created, its configuration unchanged, and   *)
(* holds exactly one object: the cube, goal or stick of the latest call.   *)
(***************************************************************************)
\* s is the sampler the first _load_model built for area, holding only obj
SamplerAsBuilt(s, name, area, obj) ==
    /\ s # None
    /\ s.inst = 1
    /\ s.name = name
    /\ s.x_range = area[1]
    /\ s.y_range = area[2]
    /\ s.rotation = 0
    /\ s.ensure_object_boundary_in_range
    /\ s.ensure_valid_placement
    /\ s.reference_pos = <<0, 0, 800>>
    /\ s.z_offset = 1
    /\ s.mujoco_objects = <<obj>>
    /\ obj.inst = loads

C7_SamplersReused ==
    loads >= 1 =>
        /\ SamplerAsBuilt(cube_initializer, "CubeSampler", << <<-50, 0>>, <<-100, 100>> >>, cube)
        /\ SamplerAsBuilt(goal_initializer, "GoalSampler", << <<70, 120>>, <<-100, 100>> >>, goal)
        /\ SamplerAsBuilt(stick_initializer, "StickSampler", << <<-200, -80>>, <<-100, 100>> >>, stick)
        /\ cube.name = "cube" /\ goal.name = "goal" /\ stick.name = "stick"

\* right after a second _load_model call
C7_Witness ==
    /\ pc = "loaded"
    /\ loads = 2
    /\ cube_initializer.mujoco_objects = <<cube>>
    /\ cube.inst = 2

(***************************************************************************)
(* C8: in a stochastic reset the cube pose is sampled and written to the   *)
(* cube's free joint; then the stick pose is sampled with exactly that     *)
(* cube placement as the fixture and written to the stick's free joint;    *)
(* then the goal pose is sampled without fixtures and written to the goal  *)
(* body's body_pos and body_quat, never to a joint.                        *)
(***************************************************************************)
C8_ResetOrder ==
    (pc = "reset_done" /\ last_reset = "stochastic") =>
        LET goalId == body_name2id(sim_bodies, "goal_main") IN
        /\ Len(trace) = 7
        /\ trace[1] = [call |-> "sample", sampler |-> "CubeSampler", fixtures |-> << >>]
        /\ trace[2].call = "set_joint_qpos" /\ trace[2].joint = "cube_joint0"
        /\ trace[3].call = "sample" /\ trace[3].sampler = "StickSampler"
        /\ DOMAIN trace[3].fixtures = {"cube"}
        /\ trace[3].fixtures["cube"][1] \o trace[3].fixtures["cube"][2] = trace[2].value
        /\ trace[3].fixtures["cube"][3] = cube
        /\ trace[4].call = "set_joint_qpos" /\ trace[4].joint = "stick_joint0"
        /\ trace[5] = [call |-> "sample", sampler |-> "GoalSampler", fixtures |-> << >>]
        /\ trace[6].call = "body_pos" /\ trace[6].body = goalId
        /\ trace[7].call = "body_quat" /\ trace[7].body = goalId
        /\ qpos = [cube_joint0 |-> trace[2].value, stick_joint0 |-> trace[4].value]
        /\ body_pos[goalId] = trace[6].value
        /\ body_quat[goalId] = trace[7].value

\* a completed stochastic reset of the second episode
C8_Witness ==
    /\ pc = "reset_done"
    /\ last_reset = "stochastic"
    /\ loads = 2
    /\ Len(trace) = 7
    /\ trace[6].value[1] > trace[2].value[1]

(***************************************************************************)
(* C9: after every reset the cube and stick contact geometries have        *)
(* contype and conaffinity 0b100, the gripper body's geometries and the    *)
(* table collision geometry have contype 0b111; so, two geometries         *)
(* colliding iff (type_a AND affinity_b) or (type_b AND affinity_a) is     *)
(* non-zero, cube and stick collide with every gripper geometry and the    *)
(* table, and with no geometry whose type and affinity both lack 0b100.    *)
(***************************************************************************)
RECURSIVE BitAnd(_, _)
BitAnd(a, b) ==
    IF a = 0 \/ b = 0 THEN 0
    ELSE (a % 2) * (b % 2) + 2 * BitAnd(a \div 2, b \div 2)

Collides(type_a, affinity_a, type_b, affinity_b) ==
    BitAnd(type_a, affinity_b) # 0 \/ BitAnd(type_b, affinity_a) # 0

GeomIds == 0..(Len(sim_geoms) - 1)

C9_CollisionMasks ==
    pc = "reset_done" =>
        LET pushed == {g \in GeomIds : sim_geoms[g + 1].name \in {"cube_g0", "stick_g0"}}
            solid == {g \in GeomIds : \/ sim_geoms[g + 1].body = GRIPPER_BODY
                                      \/ sim_geoms[g + 1].name = TABLE_COLLISION}
        IN  /\ \A g \in pushed : geom_contype[g] = 4 /\ geom_conaffinity[g] = 4
            /\ \A g \in solid : geom_contype[g] = 7
            /\ \A p \in pushed, g \in solid :
                  Collides(geom_contype[p], geom_conaffinity[p],
                           geom_contype[g], geom_conaffinity[g])
            /\ \A p \in pushed, g \in GeomIds :
                  (BitAnd(geom_contype[g], 4) = 0 /\ BitAnd(geom_conaffinity[g], 4) = 0)
                      => ~Collides(geom_contype[p], geom_conaffinity[p],
                                   geom_contype[g], geom_conaffinity[g])
            /\ \A p \in pushed, t \in 0..7, a \in 0..7 :
                  (BitAnd(t, 4) = 0 /\ BitAnd(a, 4) = 0)
                      => ~Collides(geom_contype[p], geom_conaffinity[p], t, a)

\* after a stochastic reset of a scene with three gripper geometries and a
\* robot link left on another collision layer
C9_Witness ==
    /\ pc = "reset_done"
    /\ last_reset = "stochastic"
    /\ Cardinality({g \in GeomIds : sim_geoms[g + 1].body = GRIPPER_BODY}) = 3
    /\ \E g \in GeomIds : /\ sim_geoms[g + 1].name = "robot0_link_col"
                          /\ geom_contype[g] = 2 /\ geom_conaffinity[g] = 3

(***************************************************************************)
(* C11: a _reset_internal step taken with deterministic_reset true draws   *)
(* no sample from the cube, stick or goal sampler and leaves the joint     *)
(* states and the body position and orientation fields as they were;       *)
(* samples are drawn and poses written only when the flag is false; and    *)
(* with either value of the flag the step writes the collision bitmasks:   *)
(* 0b100 on the cube and stick contact geometries, 0b111 on the contype    *)
(* of the gripper geometries and of the table.                             *)
(***************************************************************************)
ResetInternalStep == pc = "refs" /\ pc' = "reset_done"

PosesWritten ==
    \/ qpos' # qpos
    \/ body_pos' # body_pos
    \/ body_quat' # body_quat

C11_DeterministicResetFrame ==
    [][ResetInternalStep =>
          /\ deterministic_reset =>
                /\ trace' = << >>
                /\ qpos'[cube.joints[1]] = qpos[cube.joints[1]]
                /\ qpos'[stick.joints[1]] = qpos[stick.joints[1]]
                /\ body_pos'[goal_body_id] = body_pos[goal_body_id]
                /\ body_quat'[goal_body_id] = body_quat[goal_body_id]
                /\ ~PosesWritten
          /\ (PosesWritten \/ trace' # << >>) => ~deterministic_reset
          /\ ~deterministic_reset => Len(trace') = 7
          /\ \A g \in ContactGeomIds :
                geom_contype'[g] = 4 /\ geom_conaffinity'[g] = 4
          /\ \A g \in GripperGeomIds \cup {table_geom_id} : geom_contype'[g] = 7
       ]_vars

\* a deterministic reset has run: the poses loaded from the xml are in place,
\* no sampler was called and the bitmasks are written
C11_Witness ==
    /\ pc = "reset_done"
    /\ last_reset = "deterministic"
    /\ trace = << >>
    /\ \E poses \in XmlPoses :
          /\ SubSeq(qpos[cube.joints[1]], 1, 3) = poses.cube
          /\ SubSeq(qpos[stick.joints[1]], 1, 3) = poses.stick
          /\ body_pos[goal_body_id] = poses.goal
    /\ \A g \in ContactGeomIds : geom_contype[g] = 4 /\ geom_conaffinity[g] = 4
    /\ geom_contype[table_geom_id] = 7

=============================================================================
